---- MODULE Spec2Model ----
(***************************************************************************)
(* Model of the minigtest harness (third_party/minigtest/gtest.cpp,        *)
(* gtest.h): static registration of tests, InitGoogleTest, and the         *)
(* statement-by-statement control flow of RunAllTests, AddFailure and      *)
(* WriteXmlReport.                                                         *)
(*                                                                         *)
(* A test body (TestInfo::func) is an opaque callable.  Its behaviour is   *)
(* the environment of the harness: while the body runs it evaluates        *)
(* assertions (passing, failing non-fatally, failing fatally), throws a    *)
(* std::exception, throws a non-standard object, or returns.               *)
(*                                                                         *)
(* Strings are sequences of tokens, so that prefix tests and substr are    *)
(* computed and not assumed.                                               *)
(*                                                                         *)
(* Further specifications examine parts on their own: ArgsSpec runs main   *)
(* on a given command line, OutsideSpec adds assertions evaluated where no *)
(* test is running, CalcSpec calls divide and calculator_mod               *)
(* (src/unnamed/part_001) on 32-bit operands, HeapSpec runs the insert and *)
(* extract loops of HeavyLoadTest on the priority queue of the same file,  *)
(* QueueSpec calls the four queue functions in any order.                  *)
(***************************************************************************)
EXTENDS Integers, Sequences, FiniteSets, Bags, TLC

\* ------------------------------------------------------------------ bounds
\* at most this many assertion statements evaluated by one test body
MaxStmts == 2
\* at most this many command-line arguments after the program name
MaxArgs == 2

\* at most this many values given to the priority queue
MaxInserts == 11

\* ------------------------------------------------------------ input domains
\* suite names, listed in the order of std::less<std::string>
SuiteNames == <<"A", "B">>
\* the TEST(Suite, Name) declarations linked into the program: each defines
\* one function and one static TestRegistrar.  Two of them carry the same
\* suite and name.
Declarations == { [suite |-> "A", name |-> "x", func |-> "A_x_Test"],
                  [suite |-> "B", name |-> "y", func |-> "B_y_Test"],
                  [suite |-> "A", name |-> "x", func |-> "A_x_Test.2"] }
\* values of the expression under test, and the literal it is compared with
Values == {1, 2}
Expected == {1}
\* elapsed whole milliseconds of a test body (duration_cast<milliseconds>);
\* the bodies of the repository finish within the first millisecond
Elapsed == {0}
\* command-line arguments: the option with a path in a directory, with a bare
\* file name and with nothing after the colon; another output format; the
\* option name alone; the option text not at the start; another option
Prefix == <<"--gtest_output=", "xml:">>
Arguments == { <<"--gtest_output=", "xml:", "out", "/", "r.xml">>,
               <<"--gtest_output=", "xml:", "r.xml">>,
               <<"--gtest_output=", "xml:">>,
               <<"--gtest_output=", "json:", "r.xml">>,
               <<"--gtest_output=">>,
               <<"-v", "--gtest_output=", "xml:", "r.xml">>,
               <<"--gtest_color=", "no">> }

\* operands of the calculator: the limits of int and values around zero
INT_MAX == 2147483647
INT_MIN == -INT_MAX - 1
CalcOperands == {INT_MIN, -7, -2, -1, 0, 1, 2, 3, INT_MAX}
\* values stored by the caller that makes its calls in any order; -1 is
\* also what the queue returns when it is empty
QueueValues == {-1, 0}
\* values stored in the priority queue
HeapValues == {-1, 0, 5}

\* --------------------------------------------------------------- constants
\* min_heap_insert: *capacity = 10
InitialCapacity == 10
nullptr == "nullptr"
CtxAddr == "&ctx"
NoException == "none"
AssertionException == "AssertionException"
StdException == "std::exception"
OtherException == "non-standard"
NoReturn == -1
TestFile == "test.cpp"

VARIABLES
    Registry,         \* std::vector<TestInfo>, in registration order
    g_output_path,    \* std::string g_output_path (token sequence)
    current_context,  \* thread_local TestContext*
    ctx,              \* TestContext ctx of the running iteration: ctx.failures
    failures,         \* RunAllTests: vector<vector<AssertionRecord>> failures
    durations_ms,     \* RunAllTests: vector<double> durations_ms
    failed,           \* RunAllTests: int failed
    i,                \* RunAllTests: loop index (1-based)
    ip,               \* number of statements the running body has reached
    call,             \* arguments of the ExpectEqual call being evaluated
    pc,               \* position of the program
    exc,              \* exception in flight
    console,          \* lines written to std::cout
    cerr,             \* lines written to std::cerr
    xml_file,         \* the report file on disk, NoFile until written
    directories,      \* the directories create_directories has made
    ret,              \* value returned by RunAllTests
    recorded          \* history: every push_back of AddFailure, with the test
                      \* whose iteration was running

\* state of the functions that are examined on their own (InitGoogleTest on
\* a given command line, the calculator, the priority queue)
VARIABLES
    main_argv,        \* main's argv after the program name
    calc_call,        \* calculator: the call being made (function, a, b, error)
    err,              \* calculator: the caller's int err
    result,           \* calculator: the value the last call returned
    calc_pc,          \* calculator: position of the caller
    heap,             \* queue: int* heap, NULL or the allocated buffer
    size,             \* queue: int size
    capacity,         \* queue: int capacity
    inserted,         \* queue: the values given to min_heap_insert (a bag)
    sorted_elements,  \* queue: the values min_heap_delete_min returned
    heap_call,        \* queue: the last call made (function, value, returned)
    heap_pc           \* queue: position of the caller

calc_vars == <<calc_call, err, result, calc_pc>>
heap_vars == <<heap, size, capacity, inserted, sorted_elements, heap_call,
               heap_pc>>
unit_vars == <<main_argv, calc_vars, heap_vars>>
harness_vars == <<Registry, g_output_path, current_context, ctx, failures,
                  durations_ms, failed, i, ip, call, pc, exc, console, cerr,
                  xml_file, directories, ret, recorded>>

vars == <<harness_vars, unit_vars>>

NoFile == [written |-> FALSE]
NoCall == [fatal |-> FALSE]
NoCalcCall == [f |-> "none"]
NoHeapCall == [f |-> "none"]
\* an int* is NULL or points to a buffer, given by its written cells
NULL == [null |-> TRUE, cells |-> <<>>]
Buffer(cells) == [null |-> FALSE, cells |-> cells]

\* ----------------------------------------------------------------- helpers
RECURSIVE SumSeq(_)
SumSeq(s) == IF s = <<>> THEN 0 ELSE Head(s) + SumSeq(Tail(s))

\* std::string::rfind(prefix, 0) == 0
StartsWith(arg, prefix) ==
    /\ Len(arg) >= Len(prefix)
    /\ SubSeq(arg, 1, Len(prefix)) = prefix

\* std::string::substr(pos) with pos counted in tokens
Substr(arg, pos) == SubSeq(arg, pos + 1, Len(arg))

\* struct AssertionRecord { fatal, message, file, line }
AssertionRecord(fatal, message, file, line) ==
    [fatal |-> fatal, message |-> message, file |-> file, line |-> line]

\* a line of std::cout / std::cerr
Line(tag, suite, name, num, file, text) ==
    [tag |-> tag, suite |-> suite, name |-> name, num |-> num,
     file |-> file, text |-> text]

\* streaming a double (seconds = ms / 1000.0) into the report:
\* with std::fixed << std::setprecision(3) in force exactly three decimals,
\* otherwise the default notation (trailing zeros and a bare point dropped)
FormatTime(ms, fixed) ==
    LET sec == ms \div 1000
        d1  == (ms % 1000) \div 100
        d2  == (ms % 100) \div 10
        d3  == ms % 10
    IN  IF fixed THEN <<sec, ".", d1, d2, d3>>
        ELSE IF d3 # 0 THEN <<sec, ".", d1, d2, d3>>
        ELSE IF d2 # 0 THEN <<sec, ".", d1, d2>>
        ELSE IF d1 # 0 THEN <<sec, ".", d1>>
        ELSE <<sec>>

\* ------------------------------------------------------------- AddFailure
\* variant: the fatal flag is recorded but nothing is thrown
AddFailureNoThrow(cc, cf, file, line, message, fatal) ==
    IF cc = nullptr
    THEN [failures |-> cf, throws |-> FALSE]
    ELSE [failures |-> Append(cf, AssertionRecord(fatal, message, file, line)),
          throws   |-> FALSE]

\* variant: the record is inserted at the front of the list
AddFailurePrepend(cc, cf, file, line, message, fatal) ==
    IF cc = nullptr
    THEN [failures |-> cf, throws |-> FALSE]
    ELSE [failures |-> <<AssertionRecord(fatal, message, file, line)>> \o cf,
          throws   |-> fatal]

\* variant: the record is pushed and the exception thrown whatever the
\* ambient pointer is
AddFailureAnyContext(cc, cf, file, line, message, fatal) ==
    [failures |-> Append(cf, AssertionRecord(fatal, message, file, line)),
     throws   |-> fatal]

\* gtest.cpp AddFailure: the new ctx.failures and whether AssertionException
\* is thrown
AddFailure(cc, cf, file, line, message, fatal) ==
    IF cc = nullptr
    THEN [failures |-> cf, throws |-> FALSE]
    ELSE [failures |-> Append(cf, AssertionRecord(fatal, message, file, line)),
          throws   |-> fatal]

\* gtest.h ExpectEqual (EXPECT_EQ: fatal = FALSE, ASSERT_EQ: fatal = TRUE)
ExpectEqual(a, b, file, line, fatal, cc, cf) ==
    IF a = b
    THEN [failures |-> cf, throws |-> FALSE]
    ELSE AddFailure(cc, cf, file, line, "Expected equality of these values:", fatal)

\* the records a call appended, tagged with the running test
Pushed(old, new, t) ==
    [k \in 1..(Len(new) - Len(old)) |-> [test |-> t, rec |-> new[Len(old) + k]]]

\* ---------------------------------------------------------- InitGoogleTest
\* variant: any --gtest_output= argument sets the path
RECURSIVE ParseArgsAnyFormat(_, _)
ParseArgsAnyFormat(argv, path) ==
    IF argv = <<>> THEN path
    ELSE ParseArgsAnyFormat(Tail(argv),
                   IF StartsWith(Head(argv), <<Prefix[1]>>)
                   THEN Substr(Head(argv), Len(Prefix))
                   ELSE path)

\* lines 44-50: the loop over argv[1..argc-1]
RECURSIVE ParseArgs(_, _)
ParseArgs(argv, path) ==
    IF argv = <<>> THEN path
    ELSE ParseArgs(Tail(argv),
                   IF StartsWith(Head(argv), Prefix)
                   THEN Substr(Head(argv), Len(Prefix))
                   ELSE path)

ArgLists == UNION { [1..n -> Arguments] : n \in 0..MaxArgs }

\* ------------------------------------------------------------ RunAllTests
\* variant: one context declared outside the loop and never cleared
StaleContext == ctx

\* TestContext ctx;  (a default-constructed context has no failures)
FreshContext == <<>>

\* failures[i] = ctx.failures;
StoreResult(fs, k, cf) == [fs EXCEPT ![k] = cf]

\* variant: the failure lines are printed in reverse order
ResultLinesReversed(test, cf, ms) ==
    IF cf = <<>>
    THEN << Line("OK", test.suite, test.name, ms, "", "") >>
    ELSE << Line("FAILED", test.suite, test.name, ms, "", "") >>
         \o [k \in 1..Len(cf) |->
                Line("failure", "", "", cf[Len(cf) + 1 - k].line,
                     cf[Len(cf) + 1 - k].file, cf[Len(cf) + 1 - k].message)]

\* lines 137-145: the result line of a test and its failure lines
ResultLines(test, cf, ms) ==
    IF cf = <<>>
    THEN << Line("OK", test.suite, test.name, ms, "", "") >>
    ELSE << Line("FAILED", test.suite, test.name, ms, "", "") >>
         \o [k \in 1..Len(cf) |->
                Line("failure", "", "", cf[k].line, cf[k].file, cf[k].message)]

\* lines 137-140: ++failed in the else branch
CountFailed(n, cf) == IF cf = <<>> THEN n ELSE n + 1

\* line 150: tests.size() - failed
PassedCount(n, nfailed) == n - nfailed

\* variant: the list names every test
FailedListAll(tests, fs, k) ==
    [j \in 1..Len(tests) |->
        Line("FAILED_TEST", tests[j].suite, tests[j].name, 0, "", "")]

\* lines 153-157: one line per test with a non-empty failures[i]
RECURSIVE FailedList(_, _, _)
FailedList(tests, fs, k) ==
    IF k > Len(tests) THEN <<>>
    ELSE (IF fs[k] # <<>>
          THEN << Line("FAILED_TEST", tests[k].suite, tests[k].name, 0, "", "") >>
          ELSE <<>>)
         \o FailedList(tests, fs, k + 1)

\* lines 148-158
SummaryLines(tests, fs, nfailed) ==
    << Line("tear-down", "", "", 0, "", ""),
       Line("ran", "", "", Len(tests), "", ""),
       Line("PASSED", "", "", PassedCount(Len(tests), nfailed), "", "") >>
    \o (IF nfailed > 0
        THEN << Line("FAILED_SUMMARY", "", "", nfailed, "", "") >>
             \o FailedList(tests, fs, 1)
        ELSE <<>>)

\* line 161
ExitStatus(nfailed) == IF nfailed = 0 THEN 0 ELSE 1

\* --------------------------------------------------------- WriteXmlReport
\* variant: the report is attempted whatever the path is
ReportConfiguredAlways(path) == TRUE

\* line 56: if (g_output_path.empty()) return;
ReportConfigured(path) == path # <<>>

\* line 63: fs::path(g_output_path).parent_path(), the tokens before the last
\* separator (the root itself for a file directly under it)
ParentPath(path) ==
    LET seps == {k \in 1..Len(path) : path[k] = "/"}
        last == CHOOSE k \in seps : \A j \in seps : j <= k
    IN  IF seps = {} THEN <<>>
        ELSE IF last = 1 THEN <<"/">>
        ELSE SubSeq(path, 1, last - 1)

\* lines 63-68: what the file system lets the two calls do.  The throwing
\* overload of create_directories reports an empty path as an error.
CreateOutcomes(parent) ==
    IF parent = <<>> THEN {"filesystem_error"}
    ELSE {"written", "not_open", "filesystem_error"}

\* lines 58-61: suite_map[tests[i].suite].push_back(i)
SuiteIndices(tests, s) ==
    SelectSeq([k \in 1..Len(tests) |-> k], LAMBDA k : tests[k].suite = s)

\* line 75: iteration of std::map<std::string, ...> is in key order
SuiteOrder(tests) ==
    SelectSeq(SuiteNames, LAMBDA s : \E k \in 1..Len(tests) : tests[k].suite = s)

\* variant: counts the tests that failed, not their failures
TotalFailuresAsFailedTests(fs) ==
    SumSeq([k \in 1..Len(fs) |-> IF fs[k] = <<>> THEN 0 ELSE 1])

\* lines 69-70
TotalFailures(fs) == SumSeq([k \in 1..Len(fs) |-> Len(fs[k])])

\* lines 85-100: one <testcase> element
TestCaseElement(test, suite, cf, ms) ==
    [name      |-> test.name,
     result    |-> IF cf = <<>> THEN "completed" ELSE "failed",
     time      |-> FormatTime(ms, TRUE),
     classname |-> suite,
     failures  |-> [k \in 1..Len(cf) |->
                      [message |-> cf[k].message, file |-> cf[k].file,
                       line |-> cf[k].line]]]

\* variant: suite_failures counts the member tests that failed
TestSuiteElementCountsTests(tests, fs, dur, s, fixed) ==
    LET indices == SelectSeq([k \in 1..Len(tests) |-> k],
                             LAMBDA k : tests[k].suite = s)
    IN  [name     |-> s,
         tests    |-> Len(indices),
         failures |-> SumSeq([k \in 1..Len(indices) |->
                                 IF fs[indices[k]] = <<>> THEN 0 ELSE 1]),
         time     |-> FormatTime(SumSeq([k \in 1..Len(indices) |-> dur[indices[k]]]),
                                 fixed),
         cases    |-> [k \in 1..Len(indices) |->
                          [name      |-> tests[indices[k]].name,
                           result    |-> IF fs[indices[k]] = <<>>
                                         THEN "completed" ELSE "failed",
                           time      |-> FormatTime(dur[indices[k]], TRUE),
                           classname |-> s,
                           failures  |-> [m \in 1..Len(fs[indices[k]]) |->
                              [message |-> fs[indices[k]][m].message,
                               file |-> fs[indices[k]][m].file,
                               line |-> fs[indices[k]][m].line]]]]]

\* lines 76-102: one <testsuite> element; fixed is the stream's float format
\* when the element starts
TestSuiteElement(tests, fs, dur, s, fixed) ==
    LET indices == SuiteIndices(tests, s)
    IN  [name     |-> s,
         tests    |-> Len(indices),
         failures |-> SumSeq([k \in 1..Len(indices) |-> Len(fs[indices[k]])]),
         time     |-> FormatTime(SumSeq([k \in 1..Len(indices) |-> dur[indices[k]]]),
                                 fixed),
         cases    |-> [k \in 1..Len(indices) |->
                          TestCaseElement(tests[indices[k]], s, fs[indices[k]],
                                          dur[indices[k]])]]

\* lines 75-103: std::fixed is set by the first testcase written and stays
RECURSIVE EmitSuites(_, _, _, _, _)
EmitSuites(order, tests, fs, dur, fixed) ==
    IF order = <<>> THEN <<>>
    ELSE << TestSuiteElement(tests, fs, dur, Head(order), fixed) >>
         \o EmitSuites(Tail(order), tests, fs, dur,
                       fixed \/ SuiteIndices(tests, Head(order)) # <<>>)

\* lines 72-104: the document
XmlDocument(tests, fs, dur) ==
    [written  |-> TRUE,
     tests    |-> Len(tests),
     failures |-> TotalFailures(fs),
     suites   |-> EmitSuites(SuiteOrder(tests), tests, fs, dur, FALSE)]

\* ------------------------------------------------------------------- Init
\* the state before any static initialiser has run
HarnessInit ==
    /\ Registry = <<>>
    /\ g_output_path = <<>>
    /\ current_context = nullptr
    /\ ctx = <<>>
    /\ failures = <<>>
    /\ durations_ms = <<>>
    /\ failed = 0
    /\ i = 0
    /\ ip = 0
    /\ call = NoCall
    /\ pc = "static_init"
    /\ exc = NoException
    /\ console = <<>>
    /\ cerr = <<>>
    /\ xml_file = NoFile
    /\ directories = {}
    /\ ret = NoReturn
    /\ recorded = <<>>

\* no call of the calculator has been made
CalcIdle ==
    /\ calc_call = NoCalcCall
    /\ err = 0
    /\ result = 0
    /\ calc_pc = "idle"

\* no queue exists
HeapIdle ==
    /\ heap = NULL
    /\ size = 0
    /\ capacity = 0
    /\ inserted = EmptyBag
    /\ sorted_elements = <<>>
    /\ heap_call = NoHeapCall
    /\ heap_pc = "idle"

Init ==
    /\ HarnessInit
    /\ main_argv = <<>>
    /\ CalcIdle
    /\ HeapIdle

\* ---------------------------------------------------------------- actions
\* TestRegistrar::TestRegistrar: Registry().push_back(TestInfo{suite, name, func}).
\* The static registrars are constructed once each, in an order the
\* implementation chooses, before main.
TestRegistrar ==
    /\ pc = "static_init"
    /\ \E d \in Declarations :
         /\ \A k \in 1..Len(Registry) : Registry[k] # d
         /\ Registry' = Append(Registry, d)
    /\ UNCHANGED <<call, g_output_path, current_context, ctx, failures, durations_ms,
                   failed, i, ip, pc, exc, console, cerr, xml_file, ret, recorded>>
    /\ UNCHANGED <<directories, unit_vars>>

\* GTEST_MAIN: main calls InitGoogleTest(&argc, argv), then RunAllTests()
InitGoogleTest ==
    /\ pc = "static_init"
    /\ \E argv \in ArgLists : g_output_path' = ParseArgs(argv, g_output_path)
    /\ pc' = "RunAllTests"
    /\ UNCHANGED <<call, Registry, current_context, ctx, failures, durations_ms,
                   failed, i, ip, exc, console, cerr, xml_file, ret, recorded>>
    /\ UNCHANGED <<directories, unit_vars>>

\* RunAllTests, lines 108-115
RunAllTestsBegin ==
    /\ pc = "RunAllTests"
    /\ console' = console \o << Line("running", "", "", Len(Registry), "", ""),
                                Line("set-up", "", "", 0, "", "") >>
    /\ failed' = 0
    /\ failures' = [k \in 1..Len(Registry) |-> <<>>]
    /\ durations_ms' = [k \in 1..Len(Registry) |-> 0]
    /\ i' = 1
    /\ pc' = "loop"
    /\ UNCHANGED <<call, Registry, g_output_path, current_context, ctx, ip, exc,
                   cerr, xml_file, ret, recorded>>
    /\ UNCHANGED <<directories, unit_vars>>

\* lines 116-121: the RUN line, a new context, the ambient pointer set
StartTest ==
    /\ pc = "loop"
    /\ i <= Len(Registry)
    /\ console' = Append(console,
                         Line("RUN", Registry[i].suite, Registry[i].name, 0, "", ""))
    /\ ctx' = FreshContext
    /\ current_context' = CtxAddr
    /\ ip' = 0
    /\ pc' = "body"
    /\ UNCHANGED <<call, Registry, g_output_path, failures, durations_ms, failed, i,
                   exc, cerr, xml_file, ret, recorded>>
    /\ UNCHANGED <<directories, unit_vars>>

\* test.func() reaches its next EXPECT_EQ(a, b) / ASSERT_EQ(a, b): the macro
\* calls ExpectEqual(a, b, #a, #b, __FILE__, __LINE__, fatal)
BodyCall ==
    /\ pc = "body"
    /\ ip < MaxStmts
    /\ \E a \in Values, b \in Expected, fatal \in BOOLEAN :
         call' = [a |-> a, b |-> b, fatal |-> fatal, file |-> TestFile,
                  line |-> ip + 1]
    /\ ip' = ip + 1
    /\ pc' = "assertion"
    /\ UNCHANGED <<Registry, g_output_path, current_context, ctx, failures,
                   durations_ms, failed, i, exc, console, cerr, xml_file, ret,
                   recorded>>
    /\ UNCHANGED <<directories, unit_vars>>

\* ExpectEqual runs: returns to the body, or AddFailure throws out of it
Assertion ==
    /\ pc = "assertion"
    /\ LET r == ExpectEqual(call.a, call.b, call.file, call.line, call.fatal,
                            current_context, ctx)
       IN  /\ ctx' = r.failures
           /\ recorded' = recorded \o Pushed(ctx, r.failures, i)
           /\ IF r.throws
              THEN exc' = AssertionException /\ pc' = "throw_in_try"
              ELSE exc' = exc /\ pc' = "body"
    /\ call' = NoCall
    /\ UNCHANGED <<Registry, g_output_path, current_context, failures,
                   durations_ms, failed, i, ip, console, cerr, xml_file, ret>>
    /\ UNCHANGED <<directories, unit_vars>>

\* test.func() throws something that is not an AssertionException
BodyThrow ==
    /\ pc = "body"
    /\ \E e \in {StdException, OtherException} : exc' = e
    /\ pc' = "throw_in_try"
    /\ UNCHANGED <<call, Registry, g_output_path, current_context, ctx, failures,
                   durations_ms, failed, i, ip, console, cerr, xml_file, ret,
                   recorded>>
    /\ UNCHANGED <<directories, unit_vars>>

\* test.func() returns
BodyReturn ==
    /\ pc = "body"
    /\ pc' = "after_try"
    /\ UNCHANGED <<call, Registry, g_output_path, current_context, ctx, failures,
                   durations_ms, failed, i, ip, exc, console, cerr, xml_file,
                   ret, recorded>>
    /\ UNCHANGED <<directories, unit_vars>>

\* line 124: catch (const AssertionException&) { }
CatchAssertionException ==
    /\ pc = "throw_in_try"
    /\ exc = AssertionException
    /\ exc' = NoException
    /\ pc' = "after_try"
    /\ UNCHANGED <<call, Registry, g_output_path, current_context, ctx, failures,
                   durations_ms, failed, i, ip, console, cerr, xml_file, ret,
                   recorded>>
    /\ UNCHANGED <<directories, unit_vars>>

\* lines 126-130: the handlers call AddFailure("unknown", 0, ..., true); what
\* AddFailure throws is thrown inside the handler, outside the try block
CatchUnexpected ==
    /\ pc = "throw_in_try"
    /\ exc \in {StdException, OtherException}
    /\ LET message == IF exc = StdException
                      THEN "Unhandled exception: "
                      ELSE "Unhandled non-standard exception"
           r == AddFailure(current_context, ctx, "unknown", 0, message, TRUE)
       IN  /\ ctx' = r.failures
           /\ recorded' = recorded \o Pushed(ctx, r.failures, i)
           /\ IF r.throws
              THEN exc' = AssertionException /\ pc' = "throw_in_handler"
              ELSE exc' = NoException /\ pc' = "after_try"
    /\ UNCHANGED <<call, Registry, g_output_path, current_context, failures,
                   durations_ms, failed, i, ip, console, cerr, xml_file, ret>>
    /\ UNCHANGED <<directories, unit_vars>>

\* an exception that leaves RunAllTests leaves main: std::terminate
Terminate ==
    /\ pc \in {"throw_in_handler", "throw_in_report"}
    /\ pc' = "terminated"
    /\ UNCHANGED <<call, Registry, g_output_path, current_context, ctx, failures,
                   durations_ms, failed, i, ip, exc, console, cerr, xml_file,
                   ret, recorded>>
    /\ UNCHANGED <<directories, unit_vars>>

\* variant: the result is stored but the ambient pointer is left set
EndTestKeepsContext ==
    /\ pc = "after_try"
    /\ \E ms \in Elapsed : durations_ms' = [durations_ms EXCEPT ![i] = ms]
    /\ failures' = StoreResult(failures, i, ctx)
    /\ ip' = 0
    /\ pc' = "result"
    /\ UNCHANGED <<call, Registry, g_output_path, ctx, failed, i, exc, console,
                   cerr, xml_file, ret, recorded, current_context>>
    /\ UNCHANGED <<directories, unit_vars>>

\* lines 131-135
EndTest ==
    /\ pc = "after_try"
    /\ \E ms \in Elapsed : durations_ms' = [durations_ms EXCEPT ![i] = ms]
    /\ failures' = StoreResult(failures, i, ctx)
    /\ current_context' = nullptr
    /\ ip' = 0
    /\ pc' = "result"
    /\ UNCHANGED <<call, Registry, g_output_path, ctx, failed, i, exc, console,
                   cerr, xml_file, ret, recorded>>
    /\ UNCHANGED <<directories, unit_vars>>

\* lines 137-146
PrintResult ==
    /\ pc = "result"
    /\ console' = console \o ResultLines(Registry[i], ctx, durations_ms[i])
    /\ failed' = CountFailed(failed, ctx)
    /\ i' = i + 1
    /\ pc' = "loop"
    /\ UNCHANGED <<call, Registry, g_output_path, current_context, ctx, failures,
                   durations_ms, ip, exc, cerr, xml_file, ret, recorded>>
    /\ UNCHANGED <<directories, unit_vars>>

\* lines 148-158, after the loop
PrintSummary ==
    /\ pc = "loop"
    /\ i > Len(Registry)
    /\ console' = console \o SummaryLines(Registry, failures, failed)
    /\ pc' = "report"
    /\ UNCHANGED <<call, Registry, g_output_path, current_context, ctx, failures,
                   durations_ms, failed, i, ip, exc, cerr, xml_file, ret,
                   recorded>>
    /\ UNCHANGED <<directories, unit_vars>>

\* line 160, WriteXmlReport lines 56-105.  The file system decides whether
\* create_directories can make the parent directory and whether the ofstream
\* opens; create_directories of the empty path fails (invalid argument).
WriteXmlReport ==
    /\ pc = "report"
    /\ IF ~ReportConfigured(g_output_path)
       THEN /\ pc' = "return"
            /\ UNCHANGED <<exc, cerr, xml_file, directories>>
       ELSE \E outcome \in CreateOutcomes(ParentPath(g_output_path)) :
              CASE outcome = "written" ->
                     /\ directories' = directories \cup {ParentPath(g_output_path)}
                     /\ xml_file' = XmlDocument(Registry, failures, durations_ms)
                     /\ pc' = "return"
                     /\ UNCHANGED <<exc, cerr>>
                [] outcome = "not_open" ->
                     /\ directories' = directories \cup {ParentPath(g_output_path)}
                     /\ cerr' = Append(cerr, Line("Warning", "", "", 0, "", ""))
                     /\ pc' = "return"
                     /\ UNCHANGED <<exc, xml_file>>
                [] outcome = "filesystem_error" ->
                     /\ exc' = "filesystem_error"
                     /\ pc' = "throw_in_report"
                     /\ UNCHANGED <<cerr, xml_file, directories>>
    /\ UNCHANGED <<call, Registry, g_output_path, current_context, ctx, failures,
                   durations_ms, failed, i, ip, console, ret, recorded>>
    /\ UNCHANGED unit_vars

\* line 161
Return ==
    /\ pc = "return"
    /\ ret' = ExitStatus(failed)
    /\ pc' = "done"
    /\ UNCHANGED <<call, Registry, g_output_path, current_context, ctx, failures,
                   durations_ms, failed, i, ip, exc, console, cerr, xml_file,
                   recorded>>
    /\ UNCHANGED <<directories, unit_vars>>

Next ==
    \/ TestRegistrar
    \/ InitGoogleTest
    \/ RunAllTestsBegin
    \/ StartTest
    \/ BodyCall
    \/ Assertion
    \/ BodyThrow
    \/ BodyReturn
    \/ CatchAssertionException
    \/ CatchUnexpected
    \/ Terminate
    \/ EndTest
    \/ PrintResult
    \/ PrintSummary
    \/ WriteXmlReport
    \/ Return

Spec == Init /\ [][Next]_vars

\* ------------------------------------------- InitGoogleTest on a command line
\* main(argc, argv) of a program that links no TEST: the command line is given
\* and kept, InitGoogleTest reads it, RunAllTests runs on the empty registry
ArgsInit ==
    /\ HarnessInit
    /\ main_argv \in ArgLists
    /\ CalcIdle
    /\ HeapIdle

\* GTEST_MAIN: InitGoogleTest(&argc, argv) on main's own arguments
InitGoogleTestMain ==
    /\ pc = "static_init"
    /\ g_output_path' = ParseArgs(main_argv, g_output_path)
    /\ pc' = "RunAllTests"
    /\ UNCHANGED <<call, Registry, current_context, ctx, failures, durations_ms,
                   failed, i, ip, exc, console, cerr, xml_file, ret, recorded>>
    /\ UNCHANGED <<directories, unit_vars>>

ArgsNext ==
    \/ InitGoogleTestMain
    \/ RunAllTestsBegin
    \/ PrintSummary
    \/ WriteXmlReport
    \/ Terminate
    \/ Return

ArgsSpec == ArgsInit /\ [][ArgsNext]_vars

\* the program is sequential and keeps running while it can take a step
FairSpec == Spec /\ WF_vars(Next)

\* ------------------------------------------------------- the priority queue
\* src/unnamed/part_001.  The buffer *heap is modelled by the cells written
\* since its allocation (cell k of the buffer is heap.cells[k + 1]); the cells
\* after them are indeterminate and the code does not read them.  malloc
\* and realloc return the requested buffer.
At(h, k) == h[k + 1]
Swap(h, j, k) == [h EXCEPT ![j + 1] = h[k + 1], ![k + 1] = h[j + 1]]

\* variant: the loop stops after one exchange
heap_sift_up_once(h, idx) ==
    IF idx > 0
    THEN LET parent == (idx - 1) \div 2
         IN  IF At(h, parent) <= At(h, idx) THEN h ELSE Swap(h, parent, idx)
    ELSE h

\* heap_sift_up(heap, idx)
RECURSIVE heap_sift_up(_, _)
heap_sift_up(h, idx) ==
    IF idx > 0
    THEN LET parent == (idx - 1) \div 2
         IN  IF At(h, parent) <= At(h, idx) THEN h
             ELSE heap_sift_up(Swap(h, parent, idx), parent)
    ELSE h

\* variant: only the left child is compared
RECURSIVE heap_sift_down_left_only(_, _, _)
heap_sift_down_left_only(h, sz, idx) ==
    LET left  == idx * 2 + 1
        smallest == IF left < sz /\ At(h, left) < At(h, idx) THEN left ELSE idx
    IN  IF smallest = idx THEN h
        ELSE heap_sift_down_left_only(Swap(h, smallest, idx), sz, smallest)

\* heap_sift_down(heap, size, idx)
RECURSIVE heap_sift_down(_, _, _)
heap_sift_down(h, sz, idx) ==
    LET left  == idx * 2 + 1
        right == idx * 2 + 2
        s1 == IF left < sz /\ At(h, left) < At(h, idx) THEN left ELSE idx
        smallest == IF right < sz /\ At(h, right) < At(h, s1) THEN right ELSE s1
    IN  IF smallest = idx THEN h
        ELSE heap_sift_down(Swap(h, smallest, idx), sz, smallest)

\* min_heap_insert(&heap, &size, &capacity, value): the new heap, size, capacity
min_heap_insert(h, sz, cap, value) ==
    LET cap1 == IF cap = 0 THEN InitialCapacity
                ELSE IF sz >= cap THEN cap * 2 ELSE cap
        buf  == IF cap = 0 THEN <<>> ELSE h.cells
        put  == IF sz < Len(buf) THEN [buf EXCEPT ![sz + 1] = value]
                ELSE Append(buf, value)
    IN  [heap |-> Buffer(heap_sift_up(put, sz)), size |-> sz + 1,
         capacity |-> cap1]

\* variant: size is decremented on the empty queue too
min_heap_delete_min_unguarded(h, sz) ==
    IF sz = 0 THEN [heap |-> h, size |-> sz - 1, ret |-> -1]
    ELSE LET moved == [h.cells EXCEPT ![1] = At(h.cells, sz - 1)]
         IN  [heap |-> Buffer(IF sz - 1 > 0 THEN heap_sift_down(moved, sz - 1, 0)
                              ELSE moved),
              size |-> sz - 1,
              ret  |-> At(h.cells, 0)]

\* min_heap_delete_min(&heap, &size): the new heap and size, the value returned
min_heap_delete_min(h, sz) ==
    IF sz = 0 THEN [heap |-> h, size |-> sz, ret |-> -1]
    ELSE LET moved == [h.cells EXCEPT ![1] = At(h.cells, sz - 1)]
         IN  [heap |-> Buffer(IF sz - 1 > 0 THEN heap_sift_down(moved, sz - 1, 0)
                              ELSE moved),
              size |-> sz - 1,
              ret  |-> At(h.cells, 0)]

\* HeavyLoadTest, lines 86-88: int* heap = nullptr; int size = 0; int capacity = 0;
HeapInit ==
    /\ HarnessInit
    /\ main_argv = <<>>
    /\ CalcIdle
    /\ heap = NULL
    /\ size = 0
    /\ capacity = 0
    /\ inserted = EmptyBag
    /\ sorted_elements = <<>>
    /\ heap_call = NoHeapCall
    /\ heap_pc = "insert"

\* lines 89-91: one round of the insertion loop
InsertValue ==
    /\ heap_pc = "insert"
    /\ BagCardinality(inserted) < MaxInserts
    /\ \E value \in HeapValues :
         LET r == min_heap_insert(heap, size, capacity, value)
         IN  /\ heap' = r.heap
             /\ size' = r.size
             /\ capacity' = r.capacity
             /\ inserted' = inserted (+) SetToBag({value})
    /\ UNCHANGED <<sorted_elements, heap_pc>>
    /\ UNCHANGED <<heap_call, harness_vars, main_argv, calc_vars>>

\* the insertion loop ends after N rounds
InsertsDone ==
    /\ heap_pc = "insert"
    /\ heap_pc' = "extract"
    /\ UNCHANGED <<heap, size, capacity, inserted, sorted_elements>>
    /\ UNCHANGED <<heap_call, harness_vars, main_argv, calc_vars>>

\* lines 93-95: while (size > 0) sorted_elements.push_back(min_heap_delete_min(...))
ExtractMin ==
    /\ heap_pc = "extract"
    /\ size > 0
    /\ LET r == min_heap_delete_min(heap, size)
       IN  /\ heap' = r.heap
           /\ size' = r.size
           /\ sorted_elements' = Append(sorted_elements, r.ret)
    /\ UNCHANGED <<capacity, inserted, heap_pc>>
    /\ UNCHANGED <<heap_call, harness_vars, main_argv, calc_vars>>

\* line 93: the extraction loop ends when size is 0
ExtractDone ==
    /\ heap_pc = "extract"
    /\ ~(size > 0)
    /\ heap_pc' = "extracted"
    /\ UNCHANGED <<heap, size, capacity, inserted, sorted_elements>>
    /\ UNCHANGED <<heap_call, harness_vars, main_argv, calc_vars>>

\* line 102: destroy_queue(&heap, &size, &capacity)
destroy_queue ==
    /\ heap_pc = "extracted"
    /\ heap' = NULL
    /\ size' = 0
    /\ capacity' = 0
    /\ heap_pc' = "destroyed"
    /\ UNCHANGED <<inserted, sorted_elements>>
    /\ UNCHANGED <<heap_call, harness_vars, main_argv, calc_vars>>

HeapNext ==
    \/ InsertValue
    \/ InsertsDone
    \/ ExtractMin
    \/ ExtractDone
    \/ destroy_queue

HeapSpec == HeapInit /\ [][HeapNext]_vars

\* ------------------------------------------------------------ the calculator
\* src/unnamed/part_001, int of 32 bits.  NegAbs avoids -INT_MIN.
NegAbs(x) == IF x > 0 THEN -x ELSE x

\* a / b of C for b # 0 and (a, b) # (INT_MIN, -1): truncation towards zero
c_div(a, b) ==
    IF b = 1 THEN a
    ELSE IF b = -1 THEN -a
    ELSE LET m == NegAbs(a) \div NegAbs(b)
         IN  IF (a < 0) = (b < 0) THEN m ELSE -m

\* a % b of C for the same operands: a - (a / b) * b
c_rem(a, b) == a - c_div(a, b) * b

\* a / b and a % b overflow for INT_MIN and -1: undefined behaviour.  The
\* division instruction traps (SIGFPE); a build that does not use it yields
\* the wrapped quotient and the remainder 0.
Overflows(a, b) == a = INT_MIN /\ b = -1

\* the caller of the tests: int err = 0; then calls that pass &err or NULL
CalcInit ==
    /\ HarnessInit
    /\ main_argv = <<>>
    /\ HeapIdle
    /\ calc_call = NoCalcCall
    /\ err = 0
    /\ result = 0
    /\ calc_pc = "caller"

\* int divide(int a, int b, int* error)
divide ==
    /\ calc_pc \in {"caller", "returned"}
    /\ \E a \in CalcOperands, b \in CalcOperands, error \in {nullptr, "&err"} :
         /\ calc_call' = [f |-> "divide", a |-> a, b |-> b, error |-> error]
         /\ IF b = 0
            THEN /\ err' = IF error # nullptr THEN 1 ELSE err
                 /\ result' = 0
                 /\ calc_pc' = "returned"
            ELSE /\ err' = IF error # nullptr THEN 0 ELSE err
                 /\ IF Overflows(a, b)
                    THEN \/ calc_pc' = "SIGFPE" /\ result' = result
                         \/ calc_pc' = "returned" /\ result' = INT_MIN
                    ELSE calc_pc' = "returned" /\ result' = c_div(a, b)
    /\ UNCHANGED <<harness_vars, main_argv, heap_vars>>

\* int calculator_mod(int a, int b, int* error)
calculator_mod ==
    /\ calc_pc \in {"caller", "returned"}
    /\ \E a \in CalcOperands, b \in CalcOperands, error \in {nullptr, "&err"} :
         /\ calc_call' = [f |-> "calculator_mod", a |-> a, b |-> b, error |-> error]
         /\ IF b = 0
            THEN /\ err' = IF error # nullptr THEN 1 ELSE err
                 /\ result' = 0
                 /\ calc_pc' = "returned"
            ELSE /\ err' = IF error # nullptr THEN 0 ELSE err
                 /\ IF Overflows(a, b)
                    THEN \/ calc_pc' = "SIGFPE" /\ result' = result
                         \/ calc_pc' = "returned" /\ result' = 0
                    ELSE calc_pc' = "returned" /\ result' = c_rem(a, b)
    /\ UNCHANGED <<harness_vars, main_argv, heap_vars>>

CalcNext ==
    \/ divide
    \/ calculator_mod

CalcSpec == CalcInit /\ [][CalcNext]_vars

\* ------------------------------------------- assertions outside a test body
\* A program with its own main and static initialisers may evaluate
\* EXPECT_EQ / ASSERT_EQ where no test is running: in a static initialiser,
\* in main before RunAllTests, in main after RunAllTests has returned.
OutsidePoints == {"static_init", "RunAllTests", "done"}

\* the macro calls ExpectEqual(a, b, #a, #b, __FILE__, __LINE__, fatal)
OutsideCall ==
    /\ pc \in OutsidePoints
    /\ \E a \in Values, b \in Expected, fatal \in BOOLEAN :
         call' = [a |-> a, b |-> b, fatal |-> fatal, file |-> TestFile,
                  line |-> 0, from |-> pc]
    /\ pc' = "outside_assertion"
    /\ UNCHANGED <<Registry, g_output_path, current_context, ctx, failures,
                   durations_ms, failed, i, ip, exc, console, cerr, xml_file,
                   ret, recorded>>
    /\ UNCHANGED <<directories, unit_vars>>

\* ExpectEqual runs: it returns to the caller, or AddFailure throws and no
\* handler is in scope
OutsideAssertion ==
    /\ pc = "outside_assertion"
    /\ LET r == ExpectEqual(call.a, call.b, call.file, call.line, call.fatal,
                            current_context, ctx)
       IN  /\ ctx' = r.failures
           /\ recorded' = recorded \o Pushed(ctx, r.failures, i)
           /\ IF r.throws
              THEN exc' = AssertionException /\ pc' = "throw_outside"
              ELSE exc' = exc /\ pc' = "outside_returned"
    /\ UNCHANGED <<call, Registry, g_output_path, current_context, failures,
                   durations_ms, failed, i, ip, console, cerr, xml_file, ret>>
    /\ UNCHANGED <<directories, unit_vars>>

\* the caller goes on from where it was
OutsideReturn ==
    /\ pc = "outside_returned"
    /\ pc' = call.from
    /\ call' = NoCall
    /\ UNCHANGED <<Registry, g_output_path, current_context, ctx, failures,
                   durations_ms, failed, i, ip, exc, console, cerr, xml_file,
                   ret, recorded>>
    /\ UNCHANGED <<directories, unit_vars>>

OutsideNext ==
    \/ TestRegistrar
    \/ InitGoogleTest
    \/ RunAllTestsBegin
    \/ StartTest
    \/ BodyCall
    \/ Assertion
    \/ BodyThrow
    \/ BodyReturn
    \/ CatchAssertionException
    \/ CatchUnexpected
    \/ Terminate
    \/ EndTest
    \/ PrintResult
    \/ PrintSummary
    \/ WriteXmlReport
    \/ Return
    \/ OutsideCall
    \/ OutsideAssertion
    \/ OutsideReturn

OutsideSpec == Init /\ [][OutsideNext]_vars

\* ------------------------------------------- the queue under any call order
\* min_heap_peek_min(heap, size): the value returned
min_heap_peek_min(h, sz) == IF sz = 0 THEN -1 ELSE At(h.cells, 0)

\* a caller that owns int* heap = NULL; int size = 0; int capacity = 0; and
\* calls the four functions in any order
QueueInit ==
    /\ HarnessInit
    /\ main_argv = <<>>
    /\ CalcIdle
    /\ heap = NULL
    /\ size = 0
    /\ capacity = 0
    /\ inserted = EmptyBag
    /\ sorted_elements = <<>>
    /\ heap_call = NoHeapCall
    /\ heap_pc = "caller"

\* min_heap_insert(&heap, &size, &capacity, value)
CallInsert ==
    /\ heap_pc = "caller"
    /\ size < MaxInserts
    /\ \E value \in QueueValues :
         LET r == min_heap_insert(heap, size, capacity, value)
         IN  /\ heap' = r.heap
             /\ size' = r.size
             /\ capacity' = r.capacity
             /\ heap_call' = [f |-> "min_heap_insert", value |-> value]
    /\ UNCHANGED <<inserted, sorted_elements, heap_pc>>
    /\ UNCHANGED <<harness_vars, main_argv, calc_vars>>

\* min_heap_delete_min(&heap, &size)
CallDeleteMin ==
    /\ heap_pc = "caller"
    /\ LET r == min_heap_delete_min(heap, size)
       IN  /\ heap' = r.heap
           /\ size' = r.size
           /\ heap_call' = [f |-> "min_heap_delete_min", ret |-> r.ret]
    /\ UNCHANGED <<capacity, inserted, sorted_elements, heap_pc>>
    /\ UNCHANGED <<harness_vars, main_argv, calc_vars>>

\* min_heap_peek_min(heap, size)
CallPeekMin ==
    /\ heap_pc = "caller"
    /\ heap_call' = [f |-> "min_heap_peek_min", ret |-> min_heap_peek_min(heap, size)]
    /\ UNCHANGED <<heap, size, capacity, inserted, sorted_elements, heap_pc>>
    /\ UNCHANGED <<harness_vars, main_argv, calc_vars>>

\* destroy_queue(&heap, &size, &capacity), lines 97-104
CallDestroy ==
    /\ heap_pc = "caller"
    /\ heap' = NULL
    /\ size' = 0
    /\ capacity' = 0
    /\ heap_call' = [f |-> "destroy_queue"]
    /\ UNCHANGED <<inserted, sorted_elements, heap_pc>>
    /\ UNCHANGED <<harness_vars, main_argv, calc_vars>>

QueueNext ==
    \/ CallInsert
    \/ CallDeleteMin
    \/ CallPeekMin
    \/ CallDestroy

QueueSpec == QueueInit /\ [][QueueNext]_vars

\* ================================================================= claims
N == Len(Registry)
Terminated == pc \in {"done", "terminated"}
\* the pushes made while test t was the running test, in order
RecordedFor(t) ==
    LET own == SelectSeq(recorded, LAMBDA e : e.test = t)
    IN  [k \in 1..Len(own) |-> own[k].rec]
\* test t's iteration has stored its result (line 134 has run for it)
Stored(t) == t \in 1..N /\ (t < i \/ (t = i /\ pc = "result"))
HasFatal(cf) == \E k \in 1..Len(cf) : cf[k].fatal
UnknownRecord(message) == AssertionRecord(TRUE, message, "unknown", 0)
UnexpectedMessages == {"Unhandled exception: ", "Unhandled non-standard exception"}

\* C1: when the program has ended, RunAllTests has returned 0 or 1, and it
\* returned 0 exactly if no failure was recorded during any test.  Stated
\* for the runs without a report destination, where WriteXmlReport returns
\* at once and only the tests decide the outcome.
C1_ExitStatusReflectsFailures ==
    (Terminated /\ g_output_path = <<>>)
        => /\ ret \in {0, 1}
           /\ (ret = 0 <=> recorded = <<>>)

\* C2: a failing fatal assertion appends exactly one record (fatal, at its
\* own line) and throws; the exception is caught in the same iteration; from
\* the failure on the body evaluates no statement and the test records
\* nothing more, so a fatal record is the last of its test; the loop index
\* moves only from a test to the next one, after the result line; and when
\* a later test is registered, a fresh body is started after the failure.
C2_FatalPending == pc = "throw_in_try" /\ exc = AssertionException
C2_FatalStep ==
    (pc = "assertion" /\ call.a # call.b /\ call.fatal)
        => /\ ctx' = Append(ctx, AssertionRecord(TRUE,
                                    "Expected equality of these values:",
                                    call.file, call.line))
           /\ pc' = "throw_in_try"
           /\ exc' = AssertionException
C2_Caught ==
    C2_FatalPending => (pc' = "after_try" /\ exc' = NoException /\ i' = i)
C2_BodyAborted ==
    (HasFatal(ctx) /\ pc # "loop")
        => /\ ctx' = ctx
           /\ recorded' = recorded
           /\ ip' <= ip
           /\ pc' \notin {"body", "assertion"}
C2_NextTest ==
    i' # i => \/ pc = "RunAllTests" /\ i' = 1
              \/ pc = "result" /\ pc' = "loop" /\ i' = i + 1
C2_FatalIsLast ==
    \A t \in 1..Len(failures) : \A k \in 1..Len(failures[t]) :
        failures[t][k].fatal => k = Len(failures[t])
C2_FatalAssertionAbortsOnlyItsTest ==
    /\ [][C2_FatalStep /\ C2_Caught /\ C2_BodyAborted /\ C2_NextTest]_vars
    /\ []C2_FatalIsLast
    /\ (C2_FatalPending /\ i < N) ~> (pc = "body" /\ ip = 0 /\ ctx = <<>>)
C2_Witness ==
    /\ pc = "body" /\ i = 2
    /\ failures[1] # <<>> /\ failures[1][Len(failures[1])].fatal
    /\ failures[1][Len(failures[1])].file = TestFile

\* C3: the handler of an unexpected exception records exactly one failure
\* (fatal, "unknown", line 0) and control reaches the statement after the
\* try block, so that the test is stored as failed and the loop goes on.
C3_UnexpectedFailureIsRecovered ==
    [][ (pc = "throw_in_try" /\ exc \in {StdException, OtherException})
          => /\ \E m \in UnexpectedMessages : ctx' = Append(ctx, UnknownRecord(m))
             /\ pc' = "after_try" ]_vars

\* C4: a failing non-fatal assertion appends exactly one record with
\* fatal = FALSE and returns to the body; the context lists the failures of
\* the body in the order of evaluation (increasing statement position).
C4_NonFatalStep ==
    (pc = "assertion" /\ call.a # call.b /\ ~call.fatal)
        => /\ ctx' = Append(ctx, AssertionRecord(FALSE,
                                    "Expected equality of these values:",
                                    call.file, call.line))
           /\ pc' = "body"
           /\ exc' = NoException
C4_EvaluationOrder ==
    \A j \in 1..Len(ctx) : \A k \in 1..Len(ctx) :
        (j < k /\ ctx[j].file = TestFile /\ ctx[k].file = TestFile)
            => ctx[j].line < ctx[k].line
C4_NonFatalFailureContinues ==
    /\ [][C4_NonFatalStep]_vars
    /\ []C4_EvaluationOrder
C4_Witness ==
    /\ pc = "body" /\ Len(ctx) = 2
    /\ ~ctx[1].fatal /\ ~ctx[2].fatal

\* C5: the failures stored for a test are exactly the records pushed while
\* that test was the running one, a test whose result is not stored yet has
\* none, and a step changes the stored failures of the running test only.
C5_OwnFailures ==
    \A t \in 1..Len(failures) :
        failures[t] = IF Stored(t) THEN RecordedFor(t) ELSE <<>>
C5_Frame ==
    \A t \in 1..Len(failures) :
        (Len(failures') = Len(failures) /\ t # i) => failures'[t] = failures[t]
C5_FailuresStayInTheirTest ==
    /\ []C5_OwnFailures
    /\ [][C5_Frame]_vars
C5_Witness ==
    /\ N >= 2 /\ pc = "result" /\ i = 2
    /\ failures[1] # <<>> /\ failures[2] # <<>>
    /\ failures[1] # failures[2]

\* ---- reading the console and the report back
WithTag(tags) == SelectSeq(console, LAMBDA l : l.tag \in tags)
\* the k-th OK/FAILED result line is the one of the k-th test run
ResultLine == WithTag({"OK", "FAILED"})
\* the tests whose RUN line is on the console
Executed == 1..Len(WithTag({"RUN"}))
SummaryPrinted == WithTag({"tear-down"}) # <<>>
\* the registry positions with at least one stored failure, ascending
FailingTests ==
    SelectSeq([k \in 1..Len(failures) |-> k], LAMBDA k : failures[k] # <<>>)
RECURSIVE SumOver(_, _)
SumOver(S, f) ==
    IF S = {} THEN 0
    ELSE LET x == CHOOSE y \in S : TRUE IN f[x] + SumOver(S \ {x}, f)
FailureCount == [t \in 1..Len(failures) |-> Len(failures[t])]
RECURSIVE Flatten(_)
Flatten(ss) == IF ss = <<>> THEN <<>> ELSE Head(ss).cases \o Flatten(Tail(ss))
Bijections(n) ==
    { f \in [1..n -> 1..n] : \A x \in 1..n : \A y \in 1..n : f[x] = f[y] => x = y }

\* C6: when the program has ended, every test that was started has its result
\* line, that line is OK exactly if the test recorded no failure and FAILED
\* exactly if it recorded one or more, and the PASSED line, once printed,
\* shows the number of tests without a recorded failure.
C6_ResultLinesMatchFailures ==
    Terminated =>
        /\ \A t \in Executed :
             /\ t <= Len(ResultLine)
             /\ ResultLine[t].suite = Registry[t].suite
             /\ ResultLine[t].name = Registry[t].name
             /\ (ResultLine[t].tag = "OK" <=> RecordedFor(t) = <<>>)
             /\ (ResultLine[t].tag = "FAILED" <=> RecordedFor(t) # <<>>)
        /\ \A k \in 1..Len(console) :
             console[k].tag = "PASSED"
                => console[k].num = Cardinality({t \in 1..N : RecordedFor(t) = <<>>})

\* C7: the trailing failed-list exists only once all tests have run and only
\* if some test failed; it names exactly the tests with a stored failure,
\* each once, in registration order, after every other line.
C7_FailedListIsTheFailingTests ==
    LET entries == WithTag({"FAILED_TEST"})
        header  == WithTag({"FAILED_SUMMARY"})
    IN  /\ ~SummaryPrinted => (entries = <<>> /\ header = <<>>)
        /\ SummaryPrinted =>
             /\ i = N + 1
             /\ Len(header) = (IF FailingTests = <<>> THEN 0 ELSE 1)
             /\ Len(entries) = Len(FailingTests)
             /\ \A k \in 1..Len(entries) :
                  /\ entries[k].suite = Registry[FailingTests[k]].suite
                  /\ entries[k].name = Registry[FailingTests[k]].name
             /\ \A j \in 1..Len(console) : \A k \in 1..Len(console) :
                  (console[j].tag = "FAILED_TEST" /\ console[k].tag # "FAILED_TEST")
                      => k < j
C7_Witness ==
    /\ pc = "done" /\ N = 2
    /\ failures[1] # <<>> /\ failures[2] # <<>>
    /\ Registry[1] # Registry[2]

\* C8: in a written report, testsuites.tests is the number of tests run,
\* testsuites.failures is the sum of the tests' failure counts, and the
\* testcases correspond one to one to the tests, with result "failed"
\* exactly for a test with a failure and one failure element per failure.
C8_ReportTotals ==
    xml_file.written =>
        LET cases == Flatten(xml_file.suites)
        IN  /\ xml_file.tests = N
            /\ xml_file.failures = SumOver(1..N, FailureCount)
            /\ Len(cases) = N
            /\ \E f \in Bijections(N) : \A k \in 1..N :
                 /\ cases[k].name = Registry[f[k]].name
                 /\ cases[k].classname = Registry[f[k]].suite
                 /\ cases[k].result \in {"completed", "failed"}
                 /\ (cases[k].result = "failed" <=> failures[f[k]] # <<>>)
                 /\ Len(cases[k].failures) = Len(failures[f[k]])
                 /\ \A m \in 1..Len(cases[k].failures) :
                      /\ cases[k].failures[m].message = failures[f[k]][m].message
                      /\ cases[k].failures[m].file = failures[f[k]][m].file
                      /\ cases[k].failures[m].line = failures[f[k]][m].line
C8_Witness ==
    /\ xml_file.written /\ N = 2
    /\ Len(failures[1]) = 2 /\ failures[2] = <<>>

\* C9: in a written report each suite name has one testsuite element, whose
\* tests attribute is the number of tests of that suite and whose failures
\* attribute is the sum of their failure counts; its testcases are of that
\* suite; the per-suite counts add up to the totals of testsuites.
C9_SuiteRollups ==
    xml_file.written =>
        LET ss == xml_file.suites
            members(s) == {t \in 1..N : Registry[t].suite = s}
        IN  /\ {ss[k].name : k \in 1..Len(ss)} = {Registry[t].suite : t \in 1..N}
            /\ \A j \in 1..Len(ss) : \A k \in 1..Len(ss) :
                 ss[j].name = ss[k].name => j = k
            /\ \A k \in 1..Len(ss) :
                 /\ ss[k].tests = Cardinality(members(ss[k].name))
                 /\ ss[k].failures = SumOver(members(ss[k].name), FailureCount)
                 /\ Len(ss[k].cases) = ss[k].tests
                 /\ \A m \in 1..Len(ss[k].cases) :
                      ss[k].cases[m].classname = ss[k].name
            /\ SumSeq([k \in 1..Len(ss) |-> ss[k].tests]) = xml_file.tests
            /\ SumSeq([k \in 1..Len(ss) |-> ss[k].failures]) = xml_file.failures
C9_Witness ==
    /\ xml_file.written /\ N = 2
    /\ Len(xml_file.suites) = 2
    /\ Len(failures[1]) = 2 /\ failures[2] # <<>>

\* C10: in a written report the testsuite elements are in the order in which
\* their names first appear in the registry, and the testcases of a suite are
\* in registration order.
FirstAppearance(s) ==
    CHOOSE k \in 1..N : Registry[k].suite = s /\ \A j \in 1..(k - 1) : Registry[j].suite # s
C10_FirstAppearanceOrder ==
    xml_file.written =>
        LET ss == xml_file.suites
        IN  /\ \A j \in 1..Len(ss) : \A k \in 1..Len(ss) :
                 j < k => FirstAppearance(ss[j].name) < FirstAppearance(ss[k].name)
            /\ \A k \in 1..Len(ss) :
                 LET own == SelectSeq([t \in 1..N |-> t],
                                      LAMBDA t : Registry[t].suite = ss[k].name)
                 IN  /\ Len(ss[k].cases) = Len(own)
                     /\ \A m \in 1..Len(own) : ss[k].cases[m].name = Registry[own[m]].name

\* C11: when a report destination is configured and WriteXmlReport ends
\* without having written the file, it has printed one warning and returned
\* to RunAllTests (which then returns the exit status of the tests), and it
\* has changed none of the stored results.
C11_ReportFailureIsRecovered ==
    [][ (pc = "report" /\ g_output_path # <<>> /\ xml_file' = NoFile)
          => /\ pc' = "return"
             /\ cerr' = Append(cerr, Line("Warning", "", "", 0, "", ""))
             /\ failures' = failures /\ failed' = failed ]_vars

\* C12: while the configured output path is empty, no directory has been
\* created, no report file exists and nothing was written to std::cerr; and
\* when the program has ended, its exit status is 0 (RunAllTests returned 0
\* to main) exactly if no test recorded a failure.
C12_NoPathNoFileSystemEffect ==
    (g_output_path = <<>>)
        => /\ directories = {}
           /\ xml_file = NoFile
           /\ cerr = <<>>
           /\ Terminated => ((pc = "done" /\ ret = 0) <=> recorded = <<>>)
C12_Witness ==
    /\ g_output_path = <<>> /\ main_argv = <<>>
    /\ pc = "done" /\ ret = 1 /\ N = 2
    /\ failures[1] = <<>> /\ failures[2] # <<>>

\* C13: once InitGoogleTest has read the command line, the destination is
\* the <path> of the last argument of the form --gtest_output=xml:<path>,
\* and it is empty when no argument has that form; arguments of any other
\* form change nothing and are no error, so that without an argument of
\* that form the program ends normally and writes no report.
C13_HasForm(arg) ==
    Len(arg) >= 2 /\ arg[1] = "--gtest_output=" /\ arg[2] = "xml:"
C13_PathOf(arg) == [k \in 1..(Len(arg) - 2) |-> arg[k + 2]]
C13_Matching == {k \in 1..Len(main_argv) : C13_HasForm(main_argv[k])}
C13_DestinationFromArguments ==
    (pc # "static_init")
        => /\ C13_Matching = {} => /\ g_output_path = <<>>
                                   /\ xml_file = NoFile
                                   /\ pc # "terminated"
           /\ C13_Matching # {} =>
                LET last == CHOOSE k \in C13_Matching : \A j \in C13_Matching : j <= k
                IN  g_output_path = C13_PathOf(main_argv[last])
           /\ xml_file.written => g_output_path # <<>>
C13_Witness ==
    /\ pc = "done" /\ xml_file.written
    /\ Len(main_argv) = 2
    /\ main_argv[1] = <<"--gtest_output=", "xml:", "out", "/", "r.xml">>
    /\ main_argv[2] = <<"--gtest_output=", "json:", "r.xml">>

\* C14: in a written report every time attribute, of every testsuite element
\* and of every testcase element, has the form <seconds>.<d><d><d>: fixed
\* notation with exactly three decimal digits.
C14_ThreeDecimals(t) ==
    /\ Len(t) = 5
    /\ t[1] \in Nat
    /\ t[2] = "."
    /\ \A k \in 3..5 : t[k] \in 0..9
C14_TimeAttributesHaveThreeDecimals ==
    xml_file.written =>
        \A k \in 1..Len(xml_file.suites) :
            /\ C14_ThreeDecimals(xml_file.suites[k].time)
            /\ \A m \in 1..Len(xml_file.suites[k].cases) :
                 C14_ThreeDecimals(xml_file.suites[k].cases[m].time)

\* C15: when the extraction loop has ended, the values it returned are as
\* many as the values inserted, they are in non-decreasing order and they
\* are the inserted values with their multiplicities; with nothing inserted
\* nothing is extracted.
C15_BagOf(s) ==
    [v \in {s[k] : k \in 1..Len(s)} |-> Cardinality({k \in 1..Len(s) : s[k] = v})]
C15_HeapSort ==
    (heap_pc \in {"extracted", "destroyed"})
        => /\ Len(sorted_elements) = BagCardinality(inserted)
           /\ \A k \in 1..(Len(sorted_elements) - 1) :
                sorted_elements[k] <= sorted_elements[k + 1]
           /\ C15_BagOf(sorted_elements) = inserted
C15_Witness ==
    /\ heap_pc = "extracted"
    /\ capacity = 2 * InitialCapacity
    /\ Len(sorted_elements) = InitialCapacity + 1
    /\ sorted_elements[1] = -1 /\ sorted_elements[2] = -1
    /\ sorted_elements[Len(sorted_elements)] = 5

\* C16: a call of divide or calculator_mod that passes &err returns; with
\* b = 0 it returns 0 and err is 1; with b # 0 err is 0 and the value is the
\* quotient truncated towards zero (an int q with |a - q*b| < |b| and a - q*b
\* zero or of the sign of a), respectively the remainder of that division.
\* Being true after every call, whatever err was before, err tells of the
\* most recent call only.
C16_Remainder(r, a, b) ==
    /\ NegAbs(r) > NegAbs(b)
    /\ r = 0 \/ (r < 0) = (a < 0)
C16_Multiple(x, b) == x = (x \div b) * b
C16_CallWithErr ==
    calc_pc \in {"returned", "SIGFPE"} /\ calc_call.error = "&err"
C16_DivideAndModContract ==
    C16_CallWithErr
        => /\ calc_pc = "returned"
           /\ calc_call.b = 0 => (result = 0 /\ err = 1)
           /\ calc_call.b # 0 =>
                /\ err = 0
                /\ calc_call.f = "divide" =>
                     /\ ~Overflows(calc_call.a, calc_call.b)
                     /\ C16_Remainder(calc_call.a - result * calc_call.b,
                                      calc_call.a, calc_call.b)
                /\ calc_call.f = "calculator_mod" =>
                     /\ C16_Remainder(result, calc_call.a, calc_call.b)
                     /\ C16_Multiple(calc_call.a - result, calc_call.b)

\* C17: an AssertionException in flight is always inside the try block of
\* the running iteration, where line 124 catches it: none is in flight in a
\* catch handler and none has ended the program by leaving RunAllTests.
C17_AssertionExceptionIsCaught ==
    (exc = AssertionException)
        => /\ pc = "throw_in_try"
           /\ i \in 1..N
           /\ current_context = CtxAddr

\* C18: std::cout only grows, and at every moment it reads: the two header
\* lines; then, for the tests 1, 2, ... in registration order, the RUN line
\* of the test, its OK line (no stored failure) or its FAILED line followed
\* by one line per stored failure in stored order; then possibly the RUN line
\* of the test that is running; and only when every registered test has its
\* result line, the tear-down line and the summary, which hold no RUN,
\* result or failure line.
C18_Block(t) ==
    << Line("RUN", Registry[t].suite, Registry[t].name, 0, "", ""),
       Line(IF failures[t] = <<>> THEN "OK" ELSE "FAILED",
            Registry[t].suite, Registry[t].name, durations_ms[t], "", "") >>
    \o [k \in 1..Len(failures[t]) |->
           Line("failure", "", "", failures[t][k].line, failures[t][k].file,
                failures[t][k].message)]
RECURSIVE C18_Blocks(_)
C18_Blocks(k) == IF k = 0 THEN <<>> ELSE C18_Blocks(k - 1) \o C18_Block(k)
C18_TraceShape ==
    LET nrun == Len(WithTag({"RUN"}))
        nres == Len(ResultLine)
        head == IF console = <<>> THEN <<>>
                ELSE << Line("running", "", "", N, "", ""),
                        Line("set-up", "", "", 0, "", "") >>
        body == head \o C18_Blocks(nres)
                \o (IF nrun > nres
                    THEN << Line("RUN", Registry[nrun].suite, Registry[nrun].name,
                                 0, "", "") >>
                    ELSE <<>>)
        rest == SubSeq(console, Len(body) + 1, Len(console))
    IN  /\ nres <= nrun /\ nrun <= nres + 1 /\ nrun <= N
        /\ Len(console) >= Len(body)
        /\ SubSeq(console, 1, Len(body)) = body
        /\ rest # <<>> =>
             /\ nres = N /\ nrun = N
             /\ rest[1].tag = "tear-down"
             /\ \A k \in 1..Len(rest) :
                  rest[k].tag \notin {"RUN", "OK", "FAILED", "failure", "set-up", "running"}
C18_AppendOnly ==
    Len(console') >= Len(console) /\ SubSeq(console', 1, Len(console)) = console
C18_ConsoleFollowsExecutionOrder ==
    []C18_TraceShape /\ [][C18_AppendOnly]_vars
C18_Witness ==
    /\ pc = "done" /\ N = 2
    /\ Len(failures[1]) = 2 /\ failures[2] = <<>>
    /\ Len(console) = 13

\* C19: the tests are started in registration order, each at most once, and
\* the registry the Runner announced is the one it keeps; when the program
\* has ended, every registered descriptor (those of equal suite and name
\* included) has been started exactly once and has its OK or FAILED line.
C19_Names(line, t) ==
    line.suite = Registry[t].suite /\ line.name = Registry[t].name
C19_EveryTestRunsOnceInOrder ==
    LET runs == WithTag({"RUN"})
    IN  /\ Len(runs) <= N
        /\ \A k \in 1..Len(runs) : C19_Names(runs[k], k)
        /\ console # <<>> => console[1].num = N
        /\ Terminated =>
             /\ Len(runs) = N
             /\ Len(ResultLine) = N
             /\ \A k \in 1..N : C19_Names(ResultLine[k], k)

\* C20: the ambient pointer is null or the address of the one context of the
\* running iteration.  It is set while a body or a handler of test i runs,
\* and then the RUN line of test i is the last RUN line and has no result
\* line yet; it is null before the first test, between the tests, when a
\* result has been stored (the stored list being the context's list) and
\* when RunAllTests has returned.  A context's failure list changes only
\* by being created empty for the next test or by an append while its test
\* is the running one.
C20_Installed ==
    (current_context = CtxAddr)
        => /\ i \in 1..N
           /\ Len(WithTag({"RUN"})) = i
           /\ Len(ResultLine) = i - 1
           /\ pc \in {"body", "assertion", "throw_in_try", "after_try",
                      "throw_in_handler", "terminated"}
C20_Uninstalled ==
    /\ current_context \in {nullptr, CtxAddr}
    /\ pc \in {"body", "assertion", "throw_in_try", "after_try"}
         => current_context = CtxAddr
    /\ pc \in {"static_init", "RunAllTests", "loop", "result", "report",
               "return", "done"} => current_context = nullptr
    /\ Len(WithTag({"RUN"})) = Len(ResultLine) => current_context = nullptr
    /\ pc = "result" => failures[i] = ctx
C20_Mutation ==
    (ctx' # ctx)
        => /\ current_context' = CtxAddr
           /\ i' = i
           /\ \/ current_context = nullptr /\ ctx' = <<>>
              \/ /\ current_context = CtxAddr
                 /\ Len(ctx') = Len(ctx) + 1
                 /\ SubSeq(ctx', 1, Len(ctx)) = ctx
C20_OneContextOwnedByTheRunningTest ==
    [](C20_Installed /\ C20_Uninstalled) /\ [][C20_Mutation]_vars
C20_Witness ==
    /\ pc = "result" /\ i = 2
    /\ current_context = nullptr
    /\ ctx # <<>> /\ failures[2] = ctx
    /\ failures[1] # <<>> /\ failures[1] # ctx

\* C21: an assertion evaluated while the ambient pointer is null, failing or
\* not, fatal or not, returns to its caller and throws nothing; it changes
\* no context, no stored failure list, no count of failed tests, no output
\* and no exit status.
C21_NoContextStep ==
    (pc = "outside_assertion" /\ current_context = nullptr)
        => /\ pc' = "outside_returned"
           /\ exc' = exc
           /\ ctx' = ctx /\ recorded' = recorded
           /\ failures' = failures /\ failed' = failed
           /\ console' = console /\ cerr' = cerr /\ xml_file' = xml_file
           /\ ret' = ret
C21_AddFailureWithoutContextIsNoOp ==
    [](pc \in {"outside_assertion", "outside_returned"} => current_context = nullptr)
    /\ [][C21_NoContextStep]_vars
C21_Witness ==
    /\ pc = "outside_returned"
    /\ call.fatal /\ call.a # call.b /\ call.from = "done"
    /\ ret = 1 /\ N = 2
    /\ failures[1] = <<>> /\ Len(failures[2]) = 1
    /\ recorded = <<[test |-> 2, rec |-> failures[2][1]]>>

\* C22: after any calls, 0 <= size <= capacity; capacity is 0 or 10 times a
\* power of two; no element at a cell k, 0 < k < size, is smaller than the
\* element at cell (k - 1) / 2; and a call of min_heap_peek_min on a non-empty
\* queue returns the least stored element and leaves heap, size and capacity
\* as they were.
RECURSIVE C22_TenTimesPowerOfTwo(_)
C22_TenTimesPowerOfTwo(c) ==
    \/ c = 10
    \/ c > 10 /\ c % 2 = 0 /\ C22_TenTimesPowerOfTwo(c \div 2)
C22_Stored == {heap.cells[k] : k \in 1..size}
C22_Shape ==
    /\ 0 <= size /\ size <= capacity
    /\ capacity = 0 \/ C22_TenTimesPowerOfTwo(capacity)
    /\ size > 0 => (heap # NULL /\ Len(heap.cells) >= size)
    /\ capacity = 0 <=> heap = NULL
    /\ \A k \in 1..(size - 1) :
         heap.cells[((k - 1) \div 2) + 1] <= heap.cells[k + 1]
C22_Peek ==
    (heap_call'.f = "min_heap_peek_min")
        => /\ heap' = heap /\ size' = size /\ capacity' = capacity
           /\ size > 0 => /\ heap_call'.ret \in C22_Stored
                          /\ \A v \in C22_Stored : heap_call'.ret <= v
C22_QueueInvariants == []C22_Shape /\ [][C22_Peek]_vars
C22_Witness ==
    /\ heap_call = [f |-> "min_heap_peek_min", ret |-> -1]
    /\ size = InitialCapacity + 1 /\ capacity = 2 * InitialCapacity
    /\ heap.cells[size] = 0 /\ heap.cells[2] = -1 /\ heap.cells[3] = 0

\* C23: size is never negative; a call of min_heap_delete_min or
\* min_heap_peek_min on a queue of size 0 returns -1 and leaves heap, size
\* and capacity as they were; after destroy_queue heap is NULL and size and
\* capacity are 0; and the first min_heap_insert after destroy_queue gives
\* what it gives on the queue a caller has just declared: a buffer of 10
\* cells that holds the value alone.
C23_State ==
    /\ size >= 0
    /\ heap_call.f = "destroy_queue" => (heap = NULL /\ size = 0 /\ capacity = 0)
C23_EmptyCalls ==
    (size = 0 /\ heap_call'.f \in {"min_heap_delete_min", "min_heap_peek_min"})
        => /\ heap_call'.ret = -1
           /\ heap' = heap /\ size' = size /\ capacity' = capacity
C23_InsertAfterDestroy ==
    (heap_call \in {NoHeapCall, [f |-> "destroy_queue"]}
       /\ heap_call'.f = "min_heap_insert")
        => /\ heap' = Buffer(<<heap_call'.value>>)
           /\ size' = 1
           /\ capacity' = InitialCapacity
C23_EmptyQueueAndDestroy ==
    []C23_State /\ [][C23_EmptyCalls /\ C23_InsertAfterDestroy]_vars
C23_Witness ==
    /\ heap_call = [f |-> "min_heap_delete_min", ret |-> -1]
    /\ size = 0 /\ capacity = 2 * InitialCapacity
    /\ heap.cells[1] = 0

====
